---- MODULE Spec2Model ----
(***************************************************************************)
(* Model of bittensor/utils/dispatcher.py (class Dispatcher: dispatch and  *)
(* combine) and of the dendrite fan-out of                                 *)
(* bittensor/_neuron/text/core_validator/model.py (nucleus.forward,        *)
(* nucleus.async_forward, nucleus.build_stats).                            *)
(*                                                                         *)
(* Tensors are modelled by their rows.  A batch row is one integer (depth  *)
(* 1), a [batch, depth] tensor is a sequence of rows, the gate matrix is a *)
(* sequence of B rows of E weights.  torch indexes from 0, sequences here  *)
(* from 1: row b and expert e of the model are row b-1 and expert e-1 of   *)
(* the code.                                                               *)
(***************************************************************************)
EXTENDS Integers, Sequences, FiniteSets, TLC

\* Largest number of entries B*E of a gate matrix drawn as an input.
MaxCells == 4

\* Gate weights drawn as inputs: 0 is "not assigned", 1 and 2 are weights.
GateVals == {0, 1, 2}

\* The input batches drawn for a gate matrix of B rows: the rows numbered
\* (all distinct), or all rows equal.
BatchInputs(B) == {[b \in 1..B |-> b], [b \in 1..B |-> 1]}

\* The gate matrix of the class's worked example, B = 4 and E = 2.
ScenarioGates == << <<1, 0>>, <<0, 1>>, <<1, 1>>, <<0, 0>> >>

Shapes == {s \in (1..MaxCells) \X (1..MaxCells) : s[1] * s[2] <= MaxCells}

GateInputs ==
  UNION {[1..s[1] -> [1..s[2] -> GateVals]] : s \in Shapes} \cup {ScenarioGates}

\* The tie orders a sort without stable=True may leave: the order of the
\* input kept, or not kept.
TieOrders == {"stable", "reversed"}

\* The experts the caller runs on the sub-batches: expert e maps a row v to
\* v ("identity") or to 10*e + v ("tagged").
ExpertFns == {"identity", "tagged"}

VARIABLES
  inputs_gates, \* the gate matrix of the mixture, an input
  inputs,     \* the input batch, one row for each row of the gates, an input
  sortTies,   \* how torch.sort orders equal keys in this build
  self,       \* the Dispatcher instance: its attribute _expert_index
  call,       \* the last completed call of the instance, with what it returned
  held        \* the caller's expert_inputs, kept from dispatch

dvars == <<inputs_gates, inputs, sortTies, self, call, held>>

VARIABLES
  dendrites,    \* the uid of the endpoint of each dendrite passed to forward
  stats,        \* the stats dict passed to forward: uid -> entry
  step_status,  \* the step_status passed to forward
  pc,           \* where forward is: "idle", "gather" (suspended) or "done"
  calls,        \* the dendrite calls handed to asyncio.gather
  finished,     \* the calls that completed, in the order they completed
  now           \* the clock, in ticks since forward began

nvars == <<dendrites, stats, step_status, pc, calls, finished, now>>

vars == <<dvars, nvars>>

-----------------------------------------------------------------------------
(* torch primitives *)

RECURSIVE SumSeq(_)
SumSeq(s) == IF s = <<>> THEN 0 ELSE s[1] + SumSeq(Tail(s))

NumRows(gates) == Len(gates)
NumExperts(gates) == Len(gates[1])

\* The nonzero entries of gates, as a set of <<row, expert>> pairs.
NonzeroSet(gates) ==
  {p \in (1..NumRows(gates)) \X (1..NumExperts(gates)) : gates[p[1]][p[2]] # 0}

\* torch.nonzero(gates): the N x 2 tensor of the <<row, expert>> indices of
\* the nonzero entries, in row-major order.
nonzero(gates) ==
  LET nz == NonzeroSet(gates)
      pos(p) == 1 + Cardinality({q \in nz :
                      q[1] < p[1] \/ (q[1] = p[1] /\ q[2] < p[2])})
  IN  [i \in 1..Cardinality(nz) |-> CHOOSE p \in nz : pos(p) = i]

\* Whether position p of a sorted column comes before position q when both
\* hold the same key.
TieBefore(p, q) == IF sortTies = "stable" THEN p < q ELSE p > q

\* The indices that sort one column ascending.
argsort(col) ==
  LET pos(p) == 1 + Cardinality({q \in DOMAIN col :
                      col[q] < col[p] \/ (col[q] = col[p] /\ TieBefore(q, p))})
  IN  [i \in DOMAIN col |-> CHOOSE p \in DOMAIN col : pos(p) = i]

\* t.sort(0) of an N x 2 tensor: each column is sorted on its own; values
\* holds the sorted columns and indices the positions they came from.
sort(t) ==
  LET c0 == [i \in DOMAIN t |-> t[i][1]]
      c1 == [i \in DOMAIN t |-> t[i][2]]
      a0 == argsort(c0)
      a1 == argsort(c1)
  IN  [values  |-> [i \in DOMAIN t |-> <<c0[a0[i]], c1[a1[i]]>>],
       indices |-> [i \in DOMAIN t |-> <<a0[i], a1[i]>>]]

\* torch.split(t, sizes, dim=0): contiguous chunks of the given sizes.
split(t, sizes) ==
  [e \in DOMAIN sizes |->
     SubSeq(t, SumSeq(SubSeq(sizes, 1, e - 1)) + 1,
               SumSeq(SubSeq(sizes, 1, e)))]

\* torch.cat(tensors, 0).
RECURSIVE cat(_)
cat(ts) == IF ts = <<>> THEN <<>> ELSE ts[1] \o cat(Tail(ts))

\* zeros.index_add(0, index, source): row b of the result is the sum of the
\* rows source[i] with index[i] = b.
RECURSIVE index_add_row(_, _, _, _)
index_add_row(b, index, source, i) ==
  IF i = 0 THEN 0
  ELSE index_add_row(b, index, source, i - 1)
       + (IF index[i] = b THEN source[i] ELSE 0)

index_add(rows, index, source) ==
  [b \in 1..rows |-> index_add_row(b, index, source, Len(index))]

-----------------------------------------------------------------------------
(* Dispatcher.dispatch *)

\* (gates != 0.0).sum(0): the number of rows each expert gets.
part_sizes_sum(gates) ==
  [e \in 1..NumExperts(gates) |->
     SumSeq([b \in 1..NumRows(gates) |-> gates[b][e]])]

part_sizes(gates) ==
  [e \in 1..NumExperts(gates) |->
     SumSeq([b \in 1..NumRows(gates) |-> IF gates[b][e] # 0 THEN 1 ELSE 0])]

\* The locals of dispatch derived from gates: the sorted expert column (kept
\* as self._expert_index) and batch_index.
dispatch_index(gates) ==
  LET s == sort(nonzero(gates))
      sorted_experts == s.values
      index_sorted_experts == s.indices
  IN  [expert_index |-> [i \in DOMAIN sorted_experts |-> sorted_experts[i][2]],
       batch_index  |-> [i \in DOMAIN sorted_experts |->
                           sorted_experts[index_sorted_experts[i][2]][1]]]

\* dispatch(x, gates): the new instance state, the value returned or the
\* exception raised, and the row indices gathered.
dispatch(slf, x, isList, gates) ==
  LET idx == dispatch_index(gates)
      batch_index == idx.batch_index
      sizes == part_sizes(gates)
      B == NumRows(gates)
      N == Len(batch_index)
      slf2 == [has_expert_index |-> TRUE, _expert_index |-> idx.expert_index]
      x_expanded == [i \in 1..N |-> x[batch_index[i]]]
  IN  IF isList
      THEN IF N = 0 \/ N % B # 0
           THEN [self |-> slf2, ret |-> <<>>, err |-> "RuntimeError",
                 taken |-> batch_index]
           ELSE [self |-> slf2,
                 ret |-> [i \in 1..(N \div B) |->
                            [j \in 1..B |-> x[batch_index[(i - 1) * B + j]]]],
                 err |-> "none", taken |-> batch_index]
      ELSE IF SumSeq(sizes) # N
           THEN [self |-> slf2, ret |-> <<>>, err |-> "RuntimeError",
                 taken |-> batch_index]
           ELSE [self |-> slf2, ret |-> split(x_expanded, sizes),
                 err |-> "none", taken |-> batch_index]

-----------------------------------------------------------------------------
(* Dispatcher.combine *)

\* The locals of combine derived when multiply_by_gates holds.  The stale
\* variant reads the index dispatch stored on the instance.
combine_index_stale(slf, gates) ==
  LET s == sort(nonzero(gates))
      sorted_experts == s.values
      index_sorted_experts == s.indices
      fresh == [i \in DOMAIN sorted_experts |-> sorted_experts[i][2]]
  IN  [expert_index |->
         IF /\ slf.has_expert_index
            /\ Len(slf._expert_index) = Len(fresh)
            /\ \A i \in DOMAIN fresh : slf._expert_index[i] <= NumExperts(gates)
         THEN slf._expert_index ELSE fresh,
       batch_index  |-> [i \in DOMAIN sorted_experts |->
                           sorted_experts[index_sorted_experts[i][2]][1]]]

\* The variant that takes the sorted row column as it is.
combine_index_rows(slf, gates) ==
  LET s == sort(nonzero(gates))
      sorted_experts == s.values
  IN  [expert_index |-> [i \in DOMAIN sorted_experts |-> sorted_experts[i][2]],
       batch_index  |-> [i \in DOMAIN sorted_experts |-> sorted_experts[i][1]]]

combine_index(slf, gates) ==
  LET s == sort(nonzero(gates))
      sorted_experts == s.values
      index_sorted_experts == s.indices
  IN  [expert_index |-> [i \in DOMAIN sorted_experts |-> sorted_experts[i][2]],
       batch_index  |-> [i \in DOMAIN sorted_experts |->
                           sorted_experts[index_sorted_experts[i][2]][1]]]

\* combine(expert_out, gates, multiply_by_gates): the new instance state, the
\* value returned or the exception raised, the buffer after index_add and,
\* for each stacked row, the output row it was added to and its scale.
combine(slf, expert_out, gates, multiply_by_gates) ==
  LET stitched == cat(expert_out)
      idx == combine_index(slf, gates)
      expert_index == idx.expert_index
      batch_index == idx.batch_index
      nonzero_gates == [i \in DOMAIN batch_index |->
                          gates[batch_index[i]][expert_index[i]]]
      flat_stitched == [i \in DOMAIN stitched |-> stitched[i] * nonzero_gates[i]]
      B == NumRows(gates)
      combined == index_add(B, batch_index, flat_stitched)
      scatter == [i \in DOMAIN batch_index |->
                    [row |-> batch_index[i], scale |-> nonzero_gates[i]]]
  IN  IF ~multiply_by_gates
      THEN \* batch_index is bound only inside the if: line 113 reads an
           \* unbound local
           [self |-> slf, ret |-> <<>>, err |-> "UnboundLocalError",
            buffer |-> <<>>, scatter |-> <<>>]
      ELSE IF Len(expert_out[1]) # B
      THEN \* combined.view(expert_out[0].shape) of a tensor of B rows
           [self |-> slf, ret |-> <<>>, err |-> "RuntimeError",
            buffer |-> combined, scatter |-> scatter]
      ELSE [self |-> slf, ret |-> combined, err |-> "none",
            buffer |-> combined, scatter |-> scatter]

-----------------------------------------------------------------------------
(* The instance and its callers *)

NoCall == [op |-> "none"]
NotHeld == [has |-> FALSE, ret |-> <<>>, taken |-> <<>>]

\* Gate matrices of other mixtures that share the instance.
OtherGates == { << <<2, 1>> >>, << <<0, 1>>, <<1, 1>> >> }

InitDispatcher ==
  /\ inputs_gates \in GateInputs
  /\ inputs \in BatchInputs(NumRows(inputs_gates))
  /\ sortTies \in TieOrders
  /\ self = [has_expert_index |-> FALSE, _expert_index |-> <<>>]
  /\ call = NoCall
  /\ held = NotHeld

\* expert_inputs = dispatcher.dispatch(inputs)
Dispatch(isList) ==
  /\ \E r \in {dispatch(self, inputs, isList, inputs_gates)} :
       /\ self' = r.self
       /\ call' = [op |-> "dispatch", own |-> TRUE, isList |-> isList,
                   gates |-> inputs_gates, ret |-> r.ret, err |-> r.err]
       /\ held' = IF ~isList /\ r.err = "none"
                  THEN [has |-> TRUE, ret |-> r.ret, taken |-> r.taken]
                  ELSE held
  /\ UNCHANGED <<inputs_gates, inputs, sortTies, nvars>>

\* A dispatch for another gate matrix on the same instance, between the
\* dispatch and the combine of this one.
DispatchOther(g) ==
  /\ \E r \in {dispatch(self, [b \in 1..NumRows(g) |-> 1], FALSE, g)} :
       /\ self' = r.self
       /\ call' = [op |-> "dispatch", own |-> FALSE, isList |-> FALSE,
                   gates |-> g, ret |-> r.ret, err |-> r.err]
  /\ UNCHANGED <<inputs_gates, inputs, sortTies, held, nvars>>

\* experts[i](expert_inputs[i])
expert(fn, e, v) == IF fn = "identity" THEN v ELSE 10 * e + v

\* expert_outputs = [experts[i](expert_inputs[i]) ...];
\* outputs = dispatcher.combine(expert_outputs)
Combine(fn, multiply_by_gates) ==
  /\ held.has
  /\ LET expert_out == [e \in DOMAIN held.ret |->
                          [k \in DOMAIN held.ret[e] |-> expert(fn, e, held.ret[e][k])]]
     IN  \E r \in {combine(self, expert_out, inputs_gates, multiply_by_gates)} :
           /\ self' = r.self
           /\ call' = [op |-> "combine", chain |-> "dispatch", experts |-> fn,
                       expert_out |-> expert_out,
                       multiply_by_gates |-> multiply_by_gates,
                       ret |-> r.ret, err |-> r.err, buffer |-> r.buffer,
                       scatter |-> r.scatter]
  /\ UNCHANGED <<inputs_gates, inputs, sortTies, held, nvars>>

\* Expert outputs shaped for the gates (expert e has one row for each row of the
\* batch assigned to it): every row the same value, or the rows numbered.
ShapedOutputs ==
  LET n == Cardinality(NonzeroSet(inputs_gates))
      sizes == [e \in 1..NumExperts(inputs_gates) |->
                  Cardinality({b \in 1..NumRows(inputs_gates) : inputs_gates[b][e] # 0})]
      flats == {[i \in 1..n |-> 1], [i \in 1..n |-> i]}
  IN  {split(f, sizes) : f \in flats}

\* combine called with expert outputs that are shaped for the gates and come
\* from no dispatch of this instance.
CombineFree(expert_out, multiply_by_gates) ==
  /\ \E r \in {combine(self, expert_out, inputs_gates, multiply_by_gates)} :
       /\ self' = r.self
       /\ call' = [op |-> "combine", chain |-> "free", experts |-> "none",
                   expert_out |-> expert_out,
                   multiply_by_gates |-> multiply_by_gates,
                   ret |-> r.ret, err |-> r.err, buffer |-> r.buffer,
                   scatter |-> r.scatter]
  /\ UNCHANGED <<inputs_gates, inputs, sortTies, held, nvars>>

-----------------------------------------------------------------------------
(* nucleus.forward *)

\* Largest number of dendrites passed to one forward call.
MaxDendrites == 2

\* Ticks after which a dendrite call times out (the timeout of the forward
\* call, bittensor.__blocktime__, on the model's clock).
MaxTime == 2

\* bittensor.proto.ReturnCode values a dendrite reports.
Success == [is_int |-> TRUE, v |-> 1]
Timeout == [is_int |-> FALSE, value |-> <<2>>]
Unavailable == [is_int |-> FALSE, value |-> <<4>>]

\* Values torch.rand(1)[0] is drawn from.
RandVals == {0, 1}
Losses == [loss_val_nxt : RandVals, losses_nxt : RandVals, loss_nxt : RandVals]

\* An entry left in stats by an earlier step.
StaleEntry == [response_time |-> 0, return_code |-> 0]

\* The uids of D dendrites: distinct, and not in the order of the list.
Uids(D) == [i \in 1..D |-> 100 + D - i]

InitNucleus ==
  /\ dendrites \in {Uids(D) : D \in 1..MaxDendrites}
  /\ stats = [u \in {dendrites[1], 99} |-> StaleEntry]
  /\ step_status = [forward_start_time |-> 0, base_loss_start_time |-> 0]
  /\ pc = "idle"
  /\ calls = <<>>
  /\ finished = <<>>
  /\ now = 0

NucleusIdle ==
  /\ dendrites = <<>>
  /\ stats = <<>>
  /\ step_status = [forward_start_time |-> 0, base_loss_start_time |-> 0]
  /\ pc = "off"
  /\ calls = <<>>
  /\ finished = <<>>
  /\ now = 0

DispatcherIdle ==
  /\ inputs_gates = << <<1>> >>
  /\ inputs = <<1>>
  /\ sortTies = "stable"
  /\ self = [has_expert_index |-> FALSE, _expert_index |-> <<>>]
  /\ call = NoCall
  /\ held = NotHeld

\* async_forward up to its await: one dendrite.async_forward call is made
\* for each dendrite and all of them are handed to asyncio.gather.
async_forward(ds, t) ==
  [i \in DOMAIN ds |-> [done |-> FALSE, start_time |-> t, end_time |-> t,
                        response_code |-> Success]]

\* What await asyncio.gather(*calls) returns once every call is done: the
\* results in the order of the calls.  The variant returns them in the order
\* they completed.
gather_as_completed(cs, order) ==
  [k \in DOMAIN order |-> cs[order[k]]]

gather(cs, order) ==
  [i \in DOMAIN cs |-> cs[i]]

\* get_loss: three random losses are added to the entry.
get_loss(stat, loss) ==
  [response_time |-> stat.response_time, return_code |-> stat.return_code,
   loss_val_nxt |-> loss.loss_val_nxt, losses_nxt |-> loss.losses_nxt,
   loss_nxt |-> loss.loss_nxt]

\* response.response_code if it is an int, else response.response_code.value[0]
return_code(response) ==
  IF response.response_code.is_int THEN response.response_code.v
  ELSE response.response_code.value[1]

\* build_stats: for each (response, dendrite) of zip(call_responses,
\* dendrites), in order, the entry of the dendrite's uid is set.
RECURSIVE build_stats(_, _, _, _, _)
build_stats(sts, call_responses, ds, losses, i) ==
  IF i > Len(call_responses) \/ i > Len(ds) THEN sts
  ELSE LET response == call_responses[i]
           entry == [response_time |-> response.end_time - response.start_time,
                     return_code |-> return_code(response)]
       IN  build_stats((ds[i] :> get_loss(entry, losses[i])) @@ sts,
                       call_responses, ds, losses, i + 1)

\* forward up to loop.run_until_complete suspending in async_forward.
ForwardIssue ==
  /\ pc = "idle"
  /\ calls' = async_forward(dendrites, now)
  /\ pc' = "gather"
  /\ UNCHANGED <<dendrites, stats, step_status, finished, now, dvars>>

\* The clock advances while forward is suspended; no call outlives its
\* timeout.
Tick ==
  /\ pc = "gather"
  /\ now < MaxTime
  /\ \E i \in DOMAIN calls : ~calls[i].done
  /\ now' = now + 1
  /\ UNCHANGED <<dendrites, stats, step_status, pc, calls, finished, dvars>>

\* The call to dendrite i completes: with a response of the remote expert
\* before the timeout, with return code Timeout when the timeout elapses.
DendriteRespond(i, code) ==
  /\ pc = "gather"
  /\ ~calls[i].done
  /\ (code = Timeout) <=> (now - calls[i].start_time = MaxTime)
  /\ calls' = [calls EXCEPT ![i] = [done |-> TRUE, start_time |-> @.start_time,
                                    end_time |-> now, response_code |-> code]]
  /\ finished' = Append(finished, i)
  /\ UNCHANGED <<dendrites, stats, step_status, pc, now, dvars>>

\* Every call is done: gather returns, run_until_complete returns, and
\* forward goes on to build_stats and returns.
ForwardResume(losses) ==
  /\ pc = "gather"
  /\ \A i \in DOMAIN calls : calls[i].done
  /\ LET call_responses == gather(calls, finished)
     IN  stats' = build_stats(stats, call_responses, dendrites, losses, 1)
  /\ step_status' = [forward_start_time |-> now, base_loss_start_time |-> 0]
  /\ pc' = "done"
  /\ UNCHANGED <<dendrites, calls, finished, now, dvars>>

-----------------------------------------------------------------------------
(* Specifications *)

Init == InitDispatcher /\ NucleusIdle

Next ==
  \/ \E isList \in BOOLEAN : Dispatch(isList)
  \/ \E g \in OtherGates : DispatchOther(g)
  \/ \E fn \in ExpertFns, m \in BOOLEAN : Combine(fn, m)
  \/ \E expert_out \in ShapedOutputs, m \in BOOLEAN : CombineFree(expert_out, m)

Spec == Init /\ [][Next]_vars

InitForward == DispatcherIdle /\ InitNucleus

NextForward ==
  \/ ForwardIssue
  \/ Tick
  \/ \E i \in DOMAIN calls, code \in {Success, Timeout, Unavailable} :
       DendriteRespond(i, code)
  \/ \E losses \in [DOMAIN dendrites -> Losses] : ForwardResume(losses)

SpecForward == InitForward /\ [][NextForward]_vars

-----------------------------------------------------------------------------
(* What the claims speak of *)

B_in == NumRows(inputs_gates)
E_in == NumExperts(inputs_gates)

\* The rows of the batch assigned to expert e, in ascending order.
AssignedRows(g, e) ==
  SelectSeq([b \in 1..NumRows(g) |-> b], LAMBDA b : g[b][e] # 0)

\* Sum over the experts e of weight(b, e) * expert_e(inputs[b]).
RECURSIVE ExpertSum(_, _, _, _)
ExpertSum(fn, b, e, weighted) ==
  IF e = 0 THEN 0
  ELSE ExpertSum(fn, b, e - 1, weighted)
       + (IF inputs_gates[b][e] = 0 THEN 0
          ELSE (IF weighted THEN inputs_gates[b][e] ELSE 1)
               * expert(fn, e, inputs[b]))

\* The expert whose sub-batch holds position i of the concatenation of the
\* sub-batches.
ExpertAt(batches, i) ==
  CHOOSE e \in DOMAIN batches :
    LET before == Len(cat(SubSeq(batches, 1, e - 1)))
    IN  before < i /\ i <= before + Len(batches[e])

CombinedAfterDispatch(m) ==
  /\ call.op = "combine"
  /\ call.chain = "dispatch"
  /\ call.multiply_by_gates = m

HardRouting ==
  \A b \in 1..B_in :
    /\ Cardinality({e \in 1..E_in : inputs_gates[b][e] # 0}) = 1
    /\ \A e \in 1..E_in : inputs_gates[b][e] \in {0, 1}

\* C1: combine of the experts' outputs on dispatch's sub-batches returns B
\* rows, row b being the sum over the experts assigned to b of
\* gates[b,e] * expert_e(x[b]).
C1_CombineWeightedSum ==
  CombinedAfterDispatch(TRUE) =>
    /\ call.err = "none"
    /\ Len(call.ret) = B_in
    /\ \A b \in 1..B_in : call.ret[b] = ExpertSum(call.experts, b, E_in, TRUE)

\* C2: with one entry 1 in each row of gates and identity experts, combine of
\* dispatch returns the input batch row for row.
C2_RoundTripIdentity ==
  (CombinedAfterDispatch(TRUE) /\ call.experts = "identity" /\ HardRouting) =>
    /\ call.err = "none"
    /\ call.ret = inputs

\* C3: the i-th stacked row of combine is scaled by gates[r, e] and added
\* into row r, where r is the row dispatch put at position i and e the expert
\* whose sub-batch holds position i.
C3_CombineMirrorsDispatch ==
  CombinedAfterDispatch(TRUE) =>
    LET stitched == cat(call.expert_out)
        N == Len(held.taken)
    IN  /\ Len(call.scatter) = N
        /\ Len(stitched) = N
        /\ \A i \in 1..N :
             /\ call.scatter[i].row = held.taken[i]
             /\ call.scatter[i].scale =
                  inputs_gates[held.taken[i]][ExpertAt(held.ret, i)]
        /\ \A b \in 1..B_in :
             call.buffer[b] =
               SumSeq([i \in 1..N |->
                  IF held.taken[i] = b
                  THEN inputs_gates[b][ExpertAt(held.ret, i)] * stitched[i]
                  ELSE 0])

C3_Witness ==
  /\ CombinedAfterDispatch(TRUE)
  /\ sortTies = "reversed"
  /\ inputs = [b \in 1..B_in |-> b]
  /\ \E b \in 1..B_in : \E e1, e2 \in 1..E_in :
       /\ inputs_gates[b][e1] = 1
       /\ inputs_gates[b][e2] = 2
  /\ \E e \in 1..E_in : Len(AssignedRows(inputs_gates, e)) >= 2

\* C4: a row of gates that is all zero makes dispatch and combine raise no
\* error and the row of the combined output zero.
C4_ZeroRowCombinesToZero ==
  (call.op = "combine" /\ call.multiply_by_gates /\ held.has) =>
    \A b \in 1..B_in :
      (\A e \in 1..E_in : inputs_gates[b][e] = 0) =>
        /\ call.err = "none"
        /\ call.ret[b] = 0

\* C5: with multiply_by_gates=False, row b of the result is the unweighted
\* sum of the outputs of the experts assigned to row b.
C5_UnweightedSum ==
  CombinedAfterDispatch(FALSE) =>
    /\ call.err = "none"
    /\ Len(call.ret) = B_in
    /\ \A b \in 1..B_in : call.ret[b] = ExpertSum(call.experts, b, E_in, FALSE)

\* C6: dispatch of a tensor returns E sub-batches in expert order, the e-th
\* with as many rows as column e of gates has nonzero entries (none is no
\* error), so that the sizes sum to the number of nonzero entries of gates.
C6_DispatchPartition ==
  (call.op = "dispatch" /\ ~call.isList) =>
    LET g == call.gates
    IN  /\ call.err = "none"
        /\ Len(call.ret) = NumExperts(g)
        /\ \A e \in 1..NumExperts(g) :
             Len(call.ret[e]) =
               Cardinality({b \in 1..NumRows(g) : g[b][e] # 0})
        /\ Len(cat(call.ret)) = Cardinality(NonzeroSet(g))

C6_Witness ==
  /\ call.op = "dispatch"
  /\ ~call.isList
  /\ call.err = "none"
  /\ \E e1, e2 \in DOMAIN call.ret :
       Len(call.ret[e1]) = 0 /\ Len(call.ret[e2]) >= 2

\* C7: the sub-batch dispatch returns for expert e holds the rows b of the
\* input with gates[b,e] != 0, each once, in ascending order of b.
C7_DispatchAscendingRows ==
  (call.op = "dispatch" /\ call.own /\ ~call.isList) =>
    /\ call.err = "none"
    /\ \A e \in 1..E_in :
         call.ret[e] =
           [k \in DOMAIN AssignedRows(inputs_gates, e) |->
              inputs[AssignedRows(inputs_gates, e)[k]]]

\* C8: dispatch of a list returns a list of E lists, list e holding the
\* row-objects x[b] with gates[b,e] != 0 in row order, for every gate matrix
\* (here: even where the sort keeps the order of equal keys).
C8_DispatchListPerExpert ==
  (call.op = "dispatch" /\ call.own /\ call.isList /\ sortTies = "stable") =>
    /\ call.err = "none"
    /\ Len(call.ret) = E_in
    /\ \A e \in 1..E_in :
         call.ret[e] =
           [k \in DOMAIN AssignedRows(inputs_gates, e) |->
              inputs[AssignedRows(inputs_gates, e)[k]]]

\* The sorted expert column of g: expert e once for each row assigned to it.
SortedExpertColumn(g) ==
  cat([e \in 1..NumExperts(g) |->
         [k \in 1..Cardinality({b \in 1..NumRows(g) : g[b][e] # 0}) |-> e]])

FreshSelf == [has_expert_index |-> FALSE, _expert_index |-> <<>>]

\* C9: what combine returns (or raises) is what it returns on an instance
\* that never dispatched, whatever dispatch calls came before; combine leaves
\* the instance as it was, and dispatch leaves on it the sorted expert column
\* of its own gates and nothing else.
C9_CombineIgnoresStoredIndex ==
  [][ /\ call'.op = "combine" =>
           /\ self' = self
           /\ \E r \in {combine(FreshSelf, call'.expert_out, inputs_gates,
                                call'.multiply_by_gates)} :
                call'.ret = r.ret /\ call'.err = r.err
      /\ call'.op = "dispatch" =>
           self' = [has_expert_index |-> TRUE,
                    _expert_index |-> SortedExpertColumn(call'.gates)]
    ]_vars

C9_Witness ==
  /\ CombinedAfterDispatch(TRUE)
  /\ call.err = "none"
  /\ Cardinality(NonzeroSet(inputs_gates)) >= 2
  /\ self.has_expert_index
  /\ Len(self._expert_index) = Cardinality(NonzeroSet(inputs_gates))
  /\ self._expert_index # SortedExpertColumn(inputs_gates)

\* C10: a call is made to every dendrite before forward awaits any; forward
\* reaches build_stats only when every call has completed, by its own
\* timeout at the latest; and whatever order the calls complete in and
\* whichever of them time out or fail, stats ends with an entry for every
\* dendrite that holds the return code and the response time of that
\* dendrite's own response.
C10_FanOutKeepsEveryResponse ==
  /\ pc \in {"gather", "done"} => Len(calls) = Len(dendrites)
  /\ finished # <<>> => Len(calls) = Len(dendrites)
  /\ pc = "done" =>
       \A i \in DOMAIN dendrites :
         /\ calls[i].done
         /\ calls[i].end_time - calls[i].start_time <= MaxTime
         /\ dendrites[i] \in DOMAIN stats
         /\ stats[dendrites[i]].return_code =
              (IF calls[i].response_code.is_int THEN calls[i].response_code.v
               ELSE calls[i].response_code.value[1])
         /\ stats[dendrites[i]].response_time =
              calls[i].end_time - calls[i].start_time

C10_Witness ==
  /\ pc = "done"
  /\ Len(dendrites) >= 2
  /\ finished[1] # 1
  /\ \E i, j \in DOMAIN calls :
       /\ calls[i].response_code = Timeout
       /\ calls[j].response_code = Success
       /\ calls[j].end_time < calls[i].end_time

====
